---------------------------- MODULE Spec2Model ----------------------------
(***************************************************************************)
(* State-vector quantum simulator: the amplitude store (QuantumState),     *)
(* the primitive gates (quantum_gates.h), the composite circuits           *)
(* (quantum_arithmetic.h) and the modular-exponentiation driver            *)
(* (modular_exponentiation/main.cpp).                                      *)
(*                                                                         *)
(* Amplitudes are std::complex<double> in the source.  The model computes  *)
(* in exact arithmetic: a Complex is a 5-tuple <<rp, rq, ip, iq, k>>       *)
(* standing for ((rp + rq*sqrt2) + i*(ip + iq*sqrt2)) / 2^k, kept in       *)
(* lowest terms, so that equal numbers are equal tuples.  This ring holds  *)
(* 1/sqrt2 and e^{i*m*pi/4}, which is all the gates multiply by.           *)
(***************************************************************************)
EXTENDS Integers, Sequences, FiniteSets, TLC

VARIABLES
    num_qubits,      \* QuantumState::num_qubits
    state_size,      \* QuantumState::state_size
    amplitudes,      \* QuantumState::amplitudes, a function on 0..state_size-1
    initial,         \* the store's content before the first gate call
    gate,            \* descriptor of the most recent call (a gate, a store operation)
    calls,           \* number of apply calls made so far
    status,          \* how the most recent call ended
    regs,            \* registers and operands of a composite-circuit run
    main             \* locals of main(): inputs, pc, loop index, powers

storeVars == <<num_qubits, state_size, amplitudes>>
histVars == <<initial, gate, calls, status>>
vars == <<num_qubits, state_size, amplitudes, initial, gate, calls, status, regs, main>>

---------------------------------------------------------------------------
(* Bounds of the model *)

MaxQubits == 3
MaxGates == 3
MaxSupport == 2
MaxEighths == 4
MaxMult == 2
MaxMod == 3
MaxStoreQubits == 7
MaxCarryIn == 1
SmallStore == 4
MaxBase == 5
MaxModulus == 7
MaxCtl == 3
MaxStoreOps == 2

\* limits of main()'s input validation
MaxNumQubits == 10
ModulusLimit == 1024

---------------------------------------------------------------------------
(* Integer bit operations on basis-state indices *)

Pow2(n) == 2^n

\* (i >> q) & 1
Bit(i, q) == (i \div Pow2(q)) % 2

\* i ^ (1 << q)
FlipBit(i, q) == IF Bit(i, q) = 1 THEN i - Pow2(q) ELSE i + Pow2(q)

RECURSIVE BitOr(_, _)
\* a | b on non-negative integers
BitOr(a, b) ==
    IF a = 0 THEN b
    ELSE IF b = 0 THEN a
    ELSE (IF a % 2 = 1 \/ b % 2 = 1 THEN 1 ELSE 0) + 2 * BitOr(a \div 2, b \div 2)

---------------------------------------------------------------------------
(* Exact complex arithmetic *)

AllEven(c) == c[1] % 2 = 0 /\ c[2] % 2 = 0 /\ c[3] % 2 = 0 /\ c[4] % 2 = 0

RECURSIVE CReduce(_)
CReduce(c) ==
    IF c[5] > 0 /\ AllEven(c)
    THEN CReduce(<<c[1] \div 2, c[2] \div 2, c[3] \div 2, c[4] \div 2, c[5] - 1>>)
    ELSE c

\* c with its denominator raised to 2^k, k >= c[5]
CScale(c, k) ==
    LET f == Pow2(k - c[5]) IN <<c[1] * f, c[2] * f, c[3] * f, c[4] * f, k>>

CMaxK(a, b) == IF a[5] >= b[5] THEN a[5] ELSE b[5]

Complex(re, im) == <<re, 0, im, 0, 0>>

CZero == Complex(0, 0)
COne == Complex(1, 0)

CAdd(a, b) ==
    LET k == CMaxK(a, b)
        x == CScale(a, k)
        y == CScale(b, k)
    IN CReduce(<<x[1] + y[1], x[2] + y[2], x[3] + y[3], x[4] + y[4], k>>)

CNeg(a) == <<0 - a[1], 0 - a[2], 0 - a[3], 0 - a[4], a[5]>>

CSub(a, b) == CAdd(a, CNeg(b))

\* (p + q*sqrt2)(r + s*sqrt2) = (pr + 2qs) + (ps + qr)*sqrt2
CMul(a, b) ==
    LET rrp == a[1] * b[1] + 2 * a[2] * b[2]
        rrq == a[1] * b[2] + a[2] * b[1]
        iip == a[3] * b[3] + 2 * a[4] * b[4]
        iiq == a[3] * b[4] + a[4] * b[3]
        rip == a[1] * b[3] + 2 * a[2] * b[4]
        riq == a[1] * b[4] + a[2] * b[3]
        irp == a[3] * b[1] + 2 * a[4] * b[2]
        irq == a[3] * b[2] + a[4] * b[1]
    IN CReduce(<<rrp - iip, rrq - iiq, rip + irp, riq + irq, a[5] + b[5]>>)

\* std::norm: re^2 + im^2, as a Complex with zero imaginary part
CNorm(a) ==
    CReduce(<<a[1] * a[1] + 2 * a[2] * a[2] + a[3] * a[3] + 2 * a[4] * a[4],
              2 * a[1] * a[2] + 2 * a[3] * a[4], 0, 0, 2 * a[5]>>)

\* mutant of INV_SQRT2: the constant 0.5
InvSqrt2Half == <<1, 0, 0, 0, 1>>

\* 0.70710678118654752440 = sqrt2 / 2
INV_SQRT2 == <<0, 1, 0, 0, 1>>

\* sqrt2, which no gate uses: the claims state 1/sqrt2 through it
Sqrt2 == <<0, 1, 0, 0, 0>>

\* sign of the real number p + q*sqrt2 (p, q integers): -1, 0 or 1
SignSqrt2(p, q) ==
    IF p = 0 /\ q = 0 THEN 0
    ELSE IF p >= 0 /\ q >= 0 THEN 1
    ELSE IF p <= 0 /\ q <= 0 THEN 0 - 1
    ELSE IF p > 0 THEN (IF p * p > 2 * q * q THEN 1 ELSE 0 - 1)
    ELSE (IF 2 * q * q > p * p THEN 1 ELSE 0 - 1)

CRealSign(a) == SignSqrt2(a[1], a[2])
CImagSign(a) == SignSqrt2(a[3], a[4])

---------------------------------------------------------------------------
(* Amplitude store: QuantumState *)

Indices(size) == 0 .. size - 1

\* mutant of Allocate: the amplitude 1 put at the last index
AllocateLast(n) == [i \in Indices(Pow2(n)) |-> IF i = Pow2(n) - 1 THEN COne ELSE CZero]

\* QuantumState::QuantumState(n), n > 0: |00...0>
Allocate(n) == [i \in Indices(Pow2(n)) |-> IF i = 0 THEN COne ELSE CZero]

\* QuantumState::setAmplitude on a valid index
SetAmplitude(amps, index, amplitude) == [amps EXCEPT ![index] = amplitude]

\* QuantumState::getProbability
GetProbability(amps, index) == CNorm(amps[index])

(* Every for-loop over the basis-state indices lo .. hi-1 is evaluated in   *)
(* increasing order of i, as in the source; the range is split in halves    *)
(* only to keep the evaluation depth logarithmic, and the first half is     *)
(* evaluated (the test on left) before the second half starts from it.      *)
Mid(lo, hi) == lo + (hi - lo) \div 2

RECURSIVE TotalProbLoop(_, _, _, _)
\* total_prob += getProbability(i), for i in lo .. hi-1
TotalProbLoop(lo, hi, amps, total_prob) ==
    IF hi <= lo THEN total_prob
    ELSE IF hi = lo + 1 THEN CAdd(total_prob, GetProbability(amps, lo))
    ELSE LET left == TotalProbLoop(lo, Mid(lo, hi), amps, total_prob)
         IN IF left = left
            THEN TotalProbLoop(Mid(lo, hi), hi, amps, left)
            ELSE left

\* the sum QuantumState::isNormalized computes
TotalProb(amps, size) == TotalProbLoop(0, size, amps, CZero)

\* QuantumState::isNormalized, in exact arithmetic
IsNormalized(amps, size) == TotalProb(amps, size) = COne

\* the closing loop of every apply: state.setAmplitude(i, new_amplitudes[i])
Commit(new_amplitudes, size) == [i \in Indices(size) |-> new_amplitudes[i]]

---------------------------------------------------------------------------
(* HadamardGate *)

\* mutant of HadamardSum: the factor INV_SQRT2 left out
HadamardSumUnscaled(amp0, amp1) == CAdd(amp0, amp1)

\* new_amplitudes[i] = (amp0 + amp1) * INV_SQRT2
HadamardSum(amp0, amp1) == CMul(CAdd(amp0, amp1), INV_SQRT2)

\* mutant of HadamardDiff: the operands of the difference exchanged
HadamardDiffSwapped(amp0, amp1) == CMul(CSub(amp1, amp0), INV_SQRT2)

\* new_amplitudes[j] = (amp0 - amp1) * INV_SQRT2
HadamardDiff(amp0, amp1) == CMul(CSub(amp0, amp1), INV_SQRT2)

\* the loop body at index i
HadamardStep(i, target, old, new) ==
    LET j == FlipBit(i, target)
    IN IF Bit(i, target) = 0
       THEN [new EXCEPT ![i] = HadamardSum(old[i], old[j]),
                        ![j] = HadamardDiff(old[i], old[j])]
       ELSE new

RECURSIVE HadamardLoop(_, _, _, _, _)
HadamardLoop(lo, hi, target, old, new) ==
    IF hi <= lo THEN new
    ELSE IF hi = lo + 1 THEN HadamardStep(lo, target, old, new)
    ELSE LET left == HadamardLoop(lo, Mid(lo, hi), target, old, new)
         IN IF left[lo] = left[lo]
            THEN HadamardLoop(Mid(lo, hi), hi, target, old, left)
            ELSE left

HadamardApply(size, amps, target) ==
    Commit(HadamardLoop(0, size, target, amps, [i \in Indices(size) |-> CZero]), size)

---------------------------------------------------------------------------
(* XGate *)

\* mutant of XStep: the second assignment of the exchange left out
XStepHalf(i, target, old, new) ==
    LET j == FlipBit(i, target)
    IN IF Bit(i, target) = 0
       THEN [new EXCEPT ![i] = old[j]]
       ELSE new

\* the loop body at index i
XStep(i, target, old, new) ==
    LET j == FlipBit(i, target)
    IN IF Bit(i, target) = 0
       THEN [new EXCEPT ![i] = old[j], ![j] = old[i]]
       ELSE new

RECURSIVE XLoop(_, _, _, _, _)
XLoop(lo, hi, target, old, new) ==
    IF hi <= lo THEN new
    ELSE IF hi = lo + 1 THEN XStep(lo, target, old, new)
    ELSE LET left == XLoop(lo, Mid(lo, hi), target, old, new)
         IN IF left[lo] = left[lo]
            THEN XLoop(Mid(lo, hi), hi, target, old, left)
            ELSE left

XApply(size, amps, target) == Commit(XLoop(0, size, target, amps, amps), size)

---------------------------------------------------------------------------
(* CNOTGate *)

\* mutant of CNOTDest: the flip of the target bit left out
CNOTDestNoFlip(i, target) == i

\* int j = i ^ target_mask
CNOTDest(i, target) == FlipBit(i, target)

CNOTStep(i, control, target, old, new) ==
    IF Bit(i, control) # 0
    THEN [new EXCEPT ![CNOTDest(i, target)] = old[i]]
    ELSE new

RECURSIVE CNOTLoop(_, _, _, _, _, _)
CNOTLoop(lo, hi, control, target, old, new) ==
    IF hi <= lo THEN new
    ELSE IF hi = lo + 1 THEN CNOTStep(lo, control, target, old, new)
    ELSE LET left == CNOTLoop(lo, Mid(lo, hi), control, target, old, new)
         IN IF left[lo] = left[lo]
            THEN CNOTLoop(Mid(lo, hi), hi, control, target, old, left)
            ELSE left

CNOTApply(size, amps, control, target) ==
    Commit(CNOTLoop(0, size, control, target, amps, amps), size)

---------------------------------------------------------------------------
(* SWAPGate *)

\* mutant of SWAPSource: only qubit1 flipped
SWAPSourceOneFlip(i, qubit1, qubit2) == FlipBit(i, qubit1)

\* int j = i ^ mask1 ^ mask2
SWAPSource(i, qubit1, qubit2) == FlipBit(FlipBit(i, qubit1), qubit2)

SWAPStep(i, qubit1, qubit2, old, new) ==
    IF Bit(i, qubit1) # Bit(i, qubit2)
    THEN [new EXCEPT ![i] = old[SWAPSource(i, qubit1, qubit2)]]
    ELSE new

RECURSIVE SWAPLoop(_, _, _, _, _, _)
SWAPLoop(lo, hi, qubit1, qubit2, old, new) ==
    IF hi <= lo THEN new
    ELSE IF hi = lo + 1 THEN SWAPStep(lo, qubit1, qubit2, old, new)
    ELSE LET left == SWAPLoop(lo, Mid(lo, hi), qubit1, qubit2, old, new)
         IN IF left[lo] = left[lo]
            THEN SWAPLoop(Mid(lo, hi), hi, qubit1, qubit2, old, left)
            ELSE left

SWAPApply(size, amps, qubit1, qubit2) ==
    Commit(SWAPLoop(0, size, qubit1, qubit2, amps, amps), size)

---------------------------------------------------------------------------
(* ToffoliGate *)

\* mutant of ToffoliActs: one set control bit is enough
ToffoliActsEither(i, control1, control2) == Bit(i, control1) # 0 \/ Bit(i, control2) # 0

\* ((i & control1_mask) != 0) && ((i & control2_mask) != 0)
ToffoliActs(i, control1, control2) == Bit(i, control1) # 0 /\ Bit(i, control2) # 0

ToffoliStep(i, control1, control2, target, old, new) ==
    IF ToffoliActs(i, control1, control2)
    THEN [new EXCEPT ![FlipBit(i, target)] = old[i]]
    ELSE new

RECURSIVE ToffoliLoop(_, _, _, _, _, _, _)
ToffoliLoop(lo, hi, control1, control2, target, old, new) ==
    IF hi <= lo THEN new
    ELSE IF hi = lo + 1 THEN ToffoliStep(lo, control1, control2, target, old, new)
    ELSE LET left == ToffoliLoop(lo, Mid(lo, hi), control1, control2, target, old, new)
         IN IF left[lo] = left[lo]
            THEN ToffoliLoop(Mid(lo, hi), hi, control1, control2, target, old, left)
            ELSE left

ToffoliApply(size, amps, control1, control2, target) ==
    Commit(ToffoliLoop(0, size, control1, control2, target, amps, amps), size)

---------------------------------------------------------------------------
(* PhaseShiftGate.  An angle is given in eighths of a turn of pi: m stands  *)
(* for the angle m*pi/4.                                                    *)

\* Complex(std::cos(angle), std::sin(angle)) at angle = m*pi/4
PhaseFactor(m) ==
    CASE m % 8 = 0 -> <<1, 0, 0, 0, 0>>
      [] m % 8 = 1 -> <<0, 1, 0, 1, 1>>
      [] m % 8 = 2 -> <<0, 0, 1, 0, 0>>
      [] m % 8 = 3 -> <<0, 0 - 1, 0, 1, 1>>
      [] m % 8 = 4 -> <<0 - 1, 0, 0, 0, 0>>
      [] m % 8 = 5 -> <<0, 0 - 1, 0, 0 - 1, 1>>
      [] m % 8 = 6 -> <<0, 0, 0 - 1, 0, 0>>
      [] m % 8 = 7 -> <<0, 1, 0, 0 - 1, 1>>

\* mutant of PhaseShiftStep: the factor applied twice
PhaseShiftStepTwice(i, target, phase_factor, amps) ==
    IF Bit(i, target) # 0
    THEN SetAmplitude(amps, i, CMul(CMul(amps[i], phase_factor), phase_factor))
    ELSE amps

\* the loop body at index i: in place, reads and writes the store itself
PhaseShiftStep(i, target, phase_factor, amps) ==
    IF Bit(i, target) # 0
    THEN SetAmplitude(amps, i, CMul(amps[i], phase_factor))
    ELSE amps

RECURSIVE PhaseShiftLoop(_, _, _, _, _)
PhaseShiftLoop(lo, hi, target, phase_factor, amps) ==
    IF hi <= lo THEN amps
    ELSE IF hi = lo + 1 THEN PhaseShiftStep(lo, target, phase_factor, amps)
    ELSE LET left == PhaseShiftLoop(lo, Mid(lo, hi), target, phase_factor, amps)
         IN IF left[lo] = left[lo]
            THEN PhaseShiftLoop(Mid(lo, hi), hi, target, phase_factor, left)
            ELSE left

PhaseShiftApply(size, amps, target, angle) ==
    PhaseShiftLoop(0, size, target, PhaseFactor(angle), amps)

---------------------------------------------------------------------------
(* ControlledModMultGate.  A descriptor g has the fields control,           *)
(* target_start, target_count, multiplier and modulus.                      *)

\* (state_index >> target_qubits_start) & ((1ULL << target_qubits_count) - 1)
ExtractTarget(state_index, target_start, target_count) ==
    (state_index \div Pow2(target_start)) % Pow2(target_count)

\* cleared | (new_target_value << target_qubits_start)
ReplaceTarget(state_index, new_target_value, target_start, target_count) ==
    LET cleared == state_index
                   - ExtractTarget(state_index, target_start, target_count)
                     * Pow2(target_start)
    IN BitOr(cleared, new_target_value * Pow2(target_start))

\* (multiplier * y) % modulus
ModMultValue(multiplier, y, modulus) == (multiplier * y) % modulus

\* the destination index j of source index i
ModMultDest(i, g) ==
    ReplaceTarget(i,
        ModMultValue(g.multiplier, ExtractTarget(i, g.target_start, g.target_count),
                     g.modulus),
        g.target_start, g.target_count)

\* mutant of ModMultStep: acts where the control bit is clear
ModMultStepInverted(i, size, g, old, acc) ==
    IF Bit(i, g.control) = 0
    THEN LET j == ReplaceTarget(i,
                      ModMultValue(g.multiplier,
                          ExtractTarget(i, g.target_start, g.target_count), g.modulus),
                      g.target_start, g.target_count)
         IN IF j < size
            THEN [acc EXCEPT !.new[j] = old[i]]
            ELSE [acc EXCEPT !.oob = acc.oob \cup {j}]
    ELSE acc

\* The loop body at index i: new_amplitudes[j] = old_amplitudes[i] when the
\* control bit of i is set.  acc is [new, oob]: a j outside the vector is a
\* write past its end (undefined behaviour), recorded in oob with
\* new_amplitudes left as it is.
ModMultStep(i, size, g, old, acc) ==
    IF Bit(i, g.control) # 0
    THEN LET j == ModMultDest(i, g)
         IN IF j < size
            THEN [acc EXCEPT !.new[j] = old[i]]
            ELSE [acc EXCEPT !.oob = acc.oob \cup {j}]
    ELSE acc

RECURSIVE ModMultLoop(_, _, _, _, _, _)
ModMultLoop(lo, hi, size, g, old, acc) ==
    IF hi <= lo THEN acc
    ELSE IF hi = lo + 1 THEN ModMultStep(lo, size, g, old, acc)
    ELSE LET left == ModMultLoop(lo, Mid(lo, hi), size, g, old, acc)
         IN IF left.oob = left.oob
            THEN ModMultLoop(Mid(lo, hi), hi, size, g, old, left)
            ELSE left

ModMultRun(size, amps, g) ==
    ModMultLoop(0, size, size, g, amps, [new |-> amps, oob |-> {}])

---------------------------------------------------------------------------
(* Gate descriptors, their constructors' checks and their apply-time checks *)

Hadamard(target) == [kind |-> "Hadamard", target |-> target]
PauliX(target) == [kind |-> "X", target |-> target]
CNOT(control, target) == [kind |-> "CNOT", control |-> control, target |-> target]
SWAP(q1, q2) == [kind |-> "SWAP", qubit1 |-> q1, qubit2 |-> q2]
Toffoli(control1, control2, target) ==
    [kind |-> "Toffoli", control1 |-> control1, control2 |-> control2, target |-> target]
PhaseShift(target, angle) == [kind |-> "PhaseShift", target |-> target, angle |-> angle]
ModMult(control, target_start, target_count, mult, mod) ==
    [kind |-> "ModMult", control |-> control, target_start |-> target_start,
     target_count |-> target_count, multiplier |-> mult, modulus |-> mod]

NoGate == [kind |-> "none"]

\* mutant of CtorOk: ToffoliGate does not compare its two controls
CtorOkLax(g) ==
    CASE g.kind \in {"Hadamard", "X", "PhaseShift"} -> ~(g.target < 0)
      [] g.kind = "CNOT" ->
            /\ ~(g.control < 0 \/ g.target < 0)
            /\ ~(g.control = g.target)
      [] g.kind = "SWAP" ->
            /\ ~(g.qubit1 < 0 \/ g.qubit2 < 0)
            /\ ~(g.qubit1 = g.qubit2)
      [] g.kind = "Toffoli" ->
            /\ ~(g.control1 < 0 \/ g.control2 < 0 \/ g.target < 0)
            /\ ~(g.control1 = g.target \/ g.control2 = g.target)
      [] g.kind = "ModMult" ->
            /\ ~(g.control < 0 \/ g.target_start < 0 \/ g.target_count <= 0)
            /\ ~(g.multiplier = 0 \/ g.modulus = 0)
            /\ ~(g.control >= g.target_start
                 /\ g.control < g.target_start + g.target_count)

\* the constructor returns without throwing std::invalid_argument
CtorOk(g) ==
    CASE g.kind \in {"Hadamard", "X", "PhaseShift"} -> ~(g.target < 0)
      [] g.kind = "CNOT" ->
            /\ ~(g.control < 0 \/ g.target < 0)
            /\ ~(g.control = g.target)
      [] g.kind = "SWAP" ->
            /\ ~(g.qubit1 < 0 \/ g.qubit2 < 0)
            /\ ~(g.qubit1 = g.qubit2)
      [] g.kind = "Toffoli" ->
            /\ ~(g.control1 < 0 \/ g.control2 < 0 \/ g.target < 0)
            /\ ~(g.control1 = g.target \/ g.control2 = g.target)
            /\ ~(g.control1 = g.control2)
      [] g.kind = "ModMult" ->
            /\ ~(g.control < 0 \/ g.target_start < 0 \/ g.target_count <= 0)
            /\ ~(g.multiplier = 0 \/ g.modulus = 0)
            /\ ~(g.control >= g.target_start
                 /\ g.control < g.target_start + g.target_count)

\* apply passes its validation against a store of n qubits
ApplyOk(g, n) ==
    CASE g.kind \in {"Hadamard", "X", "PhaseShift"} -> ~(g.target >= n)
      [] g.kind = "CNOT" -> ~(g.control >= n \/ g.target >= n)
      [] g.kind = "SWAP" -> ~(g.qubit1 >= n \/ g.qubit2 >= n)
      [] g.kind = "Toffoli" -> ~(g.control1 >= n \/ g.control2 >= n \/ g.target >= n)
      [] g.kind = "ModMult" ->
            /\ ~(g.control >= n)
            /\ ~(g.target_start + g.target_count > n)

\* the store a gate's apply leaves, once its validation has passed
\* (ControlledModMultGate: when every write lands inside the vector)
Transform(g, size, amps) ==
    CASE g.kind = "Hadamard" -> HadamardApply(size, amps, g.target)
      [] g.kind = "X" -> XApply(size, amps, g.target)
      [] g.kind = "CNOT" -> CNOTApply(size, amps, g.control, g.target)
      [] g.kind = "SWAP" -> SWAPApply(size, amps, g.qubit1, g.qubit2)
      [] g.kind = "Toffoli" ->
            ToffoliApply(size, amps, g.control1, g.control2, g.target)
      [] g.kind = "PhaseShift" -> PhaseShiftApply(size, amps, g.target, g.angle)
      [] g.kind = "ModMult" -> Commit(ModMultRun(size, amps, g).new, size)

\* the out-of-range destinations apply writes to (none for every other gate)
StrayWrites(g, size, amps) ==
    IF g.kind = "ModMult" THEN ModMultRun(size, amps, g).oob ELSE {}

\* how "Gate g(args); g.apply(state);" ends when every write lands inside
\* the vector: the constructor throws, apply's validation throws, or the
\* store is transformed
Outcome(g, n, size, amps) ==
    IF ~CtorOk(g) THEN [status |-> "ctor_invalid_argument", amps |-> amps]
    ELSE IF ~ApplyOk(g, n) THEN [status |-> "apply_invalid_argument", amps |-> amps]
    ELSE [status |-> "ok", amps |-> Transform(g, size, amps)]

\* whether apply runs its loop and writes past the end of new_amplitudes
Strays(g, n, size, amps) ==
    CtorOk(g) /\ ApplyOk(g, n) /\ StrayWrites(g, size, amps) # {}

(* Every way "Gate g(args); g.apply(state);" can end.  A write past the end *)
(* of new_amplitudes is undefined behaviour: the run either aborts          *)
(* ("crash", the store is not observed again) or goes on with the write     *)
(* having landed outside both vectors ("ok").                               *)
Outcomes(g, n, size, amps) ==
    IF Strays(g, n, size, amps)
    THEN {[status |-> "crash", amps |-> amps], Outcome(g, n, size, amps)}
    ELSE {Outcome(g, n, size, amps)}

---------------------------------------------------------------------------
(* Runs of primitive gates on one store *)

NoRegs == [circuit |-> "none"]
NoMain == [pc |-> "none"]

\* the store QuantumState(n) constructs; nothing called yet
Fresh(n) ==
    /\ num_qubits = n
    /\ state_size = Pow2(n)
    /\ amplitudes = Allocate(n)
    /\ initial = Allocate(n)
    /\ gate = NoGate
    /\ calls = 0
    /\ status = "none"

\* construct g and apply it to the store
Call(g) ==
    /\ \E r \in Outcomes(g, num_qubits, state_size, amplitudes) :
          /\ status' = r.status
          /\ amplitudes' = r.amps
    /\ gate' = g
    /\ calls' = calls + 1
    /\ UNCHANGED <<num_qubits, state_size, initial, regs, main>>

Qubits == 0 .. MaxQubits - 1
Angles == 0 .. MaxEighths

ApplyHadamard(Q) == \E t \in Q : Call(Hadamard(t))
ApplyX(Q) == \E t \in Q : Call(PauliX(t))
ApplyCNOT(Q) == \E c, t \in Q : Call(CNOT(c, t))
ApplySWAP(Q) == \E q1, q2 \in Q : Call(SWAP(q1, q2))
ApplyToffoli(Q) == \E c1, c2, t \in Q : Call(Toffoli(c1, c2, t))
ApplyPhaseShift(Q) == \E t \in Q, m \in Angles : Call(PhaseShift(t, m))
ApplyModMult(Q, Counts, Mults, Mods) ==
    \E c, ts \in Q, tc \in Counts, mult \in Mults, mod \in Mods :
        Call(ModMult(c, ts, tc, mult, mod))

(* Spec: a circuit of up to MaxGates successfully applied unitary gates on  *)
(* a freshly allocated store.                                               *)
Init ==
    /\ \E n \in 1 .. MaxQubits : Fresh(n)
    /\ regs = NoRegs
    /\ main = NoMain

Valid == 0 .. num_qubits - 1

\* one more gate of the circuit, constructed and applied without error
InCircuit == calls < MaxGates /\ status' = "ok"

Next ==
    \/ InCircuit /\ ApplyHadamard(Valid)
    \/ InCircuit /\ ApplyX(Valid)
    \/ InCircuit /\ ApplyCNOT(Valid)
    \/ InCircuit /\ ApplySWAP(Valid)
    \/ InCircuit /\ ApplyToffoli(Valid)
    \/ InCircuit /\ ApplyPhaseShift(Valid)

Spec == Init /\ [][Next]_vars

---------------------------------------------------------------------------
(* SpecStaged: a test harness stages the store's content with setAmplitude  *)
(* writes, then constructs one gate and applies it, and applies it again.   *)

RampValue(i) == Complex(i + 1, i % 2)

\* distinct non-zero amplitudes on the indices of S, zero elsewhere
Ramp(size, S) == [i \in Indices(size) |-> IF i \in S THEN RampValue(i) ELSE CZero]

\* the basis state |k>
Basis(size, k) == [i \in Indices(size) |-> IF i = k THEN COne ELSE CZero]

Contents(size) ==
    {Basis(size, k) : k \in Indices(size)}
    \cup {Ramp(size, S) : S \in {T \in SUBSET Indices(size) : Cardinality(T) <= MaxSupport}}
    \cup {Ramp(size, Indices(size))}

Staged(n, content) ==
    /\ num_qubits = n
    /\ state_size = Pow2(n)
    /\ amplitudes = content
    /\ initial = content
    /\ gate = NoGate
    /\ calls = 0
    /\ status = "none"

InitStaged ==
    /\ \E n \in 1 .. MaxQubits : \E content \in Contents(Pow2(n)) : Staged(n, content)
    /\ regs = NoRegs
    /\ main = NoMain

\* the constructor accepted its arguments
Constructed == status' # "ctor_invalid_argument"

\* the same descriptor applied a second time (the self-inverse tests)
ApplyAgain == calls = 1 /\ status = "ok" /\ gate.kind # "ModMult" /\ Call(gate)

NextStaged ==
    \/ calls = 0 /\ ApplyHadamard(Qubits) /\ Constructed
    \/ calls = 0 /\ ApplyX(Qubits) /\ Constructed
    \/ calls = 0 /\ ApplyCNOT(Qubits) /\ Constructed
    \/ calls = 0 /\ ApplySWAP(Qubits) /\ Constructed
    \/ calls = 0 /\ ApplyToffoli(Qubits) /\ Constructed
    \/ calls = 0 /\ ApplyPhaseShift(Qubits) /\ Constructed
    \/ /\ calls = 0
       /\ ApplyModMult(Qubits, 1 .. MaxQubits, 1 .. MaxMult, 1 .. MaxMod)
       /\ Constructed
    \/ ApplyAgain

SpecStaged == InitStaged /\ [][NextStaged]_vars

---------------------------------------------------------------------------
(* Composite circuits: QuantumAdder and QuantumComparator.  A descriptor r  *)
(* has the fields a_start, b_start, num_bits and carry_start (adder) or     *)
(* result_start (comparator).                                               *)

RECURSIVE RunGates(_, _, _, _)
\* "Gate g(args); g.apply(state);" for each gate of the sequence in turn; an
\* exception leaves the sequence with the store as the gates before it left it
RunGates(gates, n, size, acc) ==
    IF acc.status # "ok" \/ gates = <<>> THEN acc
    ELSE RunGates(Tail(gates), n, size, Outcome(Head(gates), n, size, acc.amps))

\* mutant of AdderBit: the sum bit computed before the carry
AdderBitSumFirst(r, i) ==
    LET a_qubit == r.a_start + i
        b_qubit == r.b_start + i
        carry_in == r.carry_start + i
        carry_out == r.carry_start + i + 1
    IN << CNOT(a_qubit, b_qubit),
          CNOT(carry_in, b_qubit),
          Toffoli(a_qubit, b_qubit, carry_out),
          Toffoli(a_qubit, carry_in, carry_out),
          Toffoli(b_qubit, carry_in, carry_out) >>

\* mutant of AdderBit: the first sum step writes a_qubit
AdderBitSumIntoA(r, i) ==
    LET a_qubit == r.a_start + i
        b_qubit == r.b_start + i
        carry_in == r.carry_start + i
        carry_out == r.carry_start + i + 1
    IN << Toffoli(a_qubit, b_qubit, carry_out),
          Toffoli(a_qubit, carry_in, carry_out),
          Toffoli(b_qubit, carry_in, carry_out),
          CNOT(b_qubit, a_qubit),
          CNOT(carry_in, b_qubit) >>

\* mutant of AdderBit: the third Toffoli left out
AdderBitTwoToffoli(r, i) ==
    LET a_qubit == r.a_start + i
        b_qubit == r.b_start + i
        carry_in == r.carry_start + i
        carry_out == r.carry_start + i + 1
    IN << Toffoli(a_qubit, b_qubit, carry_out),
          Toffoli(a_qubit, carry_in, carry_out),
          CNOT(a_qubit, b_qubit),
          CNOT(carry_in, b_qubit) >>

\* the gates of iteration i of QuantumAdder::apply
AdderBit(r, i) ==
    LET a_qubit == r.a_start + i
        b_qubit == r.b_start + i
        carry_in == r.carry_start + i
        carry_out == r.carry_start + i + 1
    IN << Toffoli(a_qubit, b_qubit, carry_out),
          Toffoli(a_qubit, carry_in, carry_out),
          Toffoli(b_qubit, carry_in, carry_out),
          CNOT(a_qubit, b_qubit),
          CNOT(carry_in, b_qubit) >>

RECURSIVE AdderGates(_, _)
\* for (int i = ...; i < num_bits; i++)
AdderGates(r, i) ==
    IF i < r.num_bits THEN AdderBit(r, i) \o AdderGates(r, i + 1) ELSE <<>>

AdderCtorOk(r) ==
    /\ ~(r.a_start < 0 \/ r.b_start < 0 \/ r.carry_start < 0)
    /\ ~(r.num_bits <= 0)

\* mutant of AdderApplyOk: the carry register taken to be num_bits wide
AdderApplyOkNoCarryOut(r, n) ==
    ~(\/ r.a_start + r.num_bits > n
      \/ r.b_start + r.num_bits > n
      \/ r.carry_start + r.num_bits > n)

AdderApplyOk(r, n) ==
    ~(\/ r.a_start + r.num_bits > n
      \/ r.b_start + r.num_bits > n
      \/ r.carry_start + r.num_bits + 1 > n)

\* how an exception thrown by an inner gate leaves QuantumAdder::apply
Propagate(acc) ==
    IF acc.status = "ok" THEN acc ELSE [acc EXCEPT !.status = "inner_invalid_argument"]

\* QuantumAdder adder(...); adder.apply(state);
AdderOutcome(r, n, size, amps) ==
    IF ~AdderCtorOk(r) THEN [status |-> "ctor_invalid_argument", amps |-> amps]
    ELSE IF ~AdderApplyOk(r, n) THEN [status |-> "apply_invalid_argument", amps |-> amps]
    ELSE Propagate(RunGates(AdderGates(r, 0), n, size, [status |-> "ok", amps |-> amps]))

\* mutant of ComparatorBit: the inversion of b_qubit left out
ComparatorBitNoInvert(r, i) ==
    LET a_qubit == r.a_start + i
        b_qubit == r.b_start + i
        result_qubit == r.result_start + 1 + i
    IN << CNOT(a_qubit, b_qubit),
          Toffoli(b_qubit, result_qubit - 1, result_qubit) >>

\* mutant of ComparatorBit: b_qubit put back after the Toffoli
ComparatorBitRestoreB(r, i) ==
    LET a_qubit == r.a_start + i
        b_qubit == r.b_start + i
        result_qubit == r.result_start + 1 + i
    IN << CNOT(a_qubit, b_qubit),
          PauliX(b_qubit),
          Toffoli(b_qubit, result_qubit - 1, result_qubit),
          PauliX(b_qubit),
          CNOT(a_qubit, b_qubit) >>

\* the gates of iteration i of QuantumComparator::apply
ComparatorBit(r, i) ==
    LET a_qubit == r.a_start + i
        b_qubit == r.b_start + i
        result_qubit == r.result_start + 1 + i
    IN << CNOT(a_qubit, b_qubit),
          PauliX(b_qubit),
          Toffoli(b_qubit, result_qubit - 1, result_qubit) >>

RECURSIVE ComparatorLoop(_, _)
ComparatorLoop(r, i) ==
    IF i < r.num_bits THEN ComparatorBit(r, i) \o ComparatorLoop(r, i + 1) ELSE <<>>

\* mutant of ComparatorGates: result_start left as it is
ComparatorGatesNoInit(r) == ComparatorLoop(r, 0)

\* XGate init_result(result_start), then the loop
ComparatorGates(r) == <<PauliX(r.result_start)>> \o ComparatorLoop(r, 0)

ComparatorCtorOk(r) ==
    /\ ~(r.a_start < 0 \/ r.b_start < 0 \/ r.result_start < 0)
    /\ ~(r.num_bits <= 0)

ComparatorApplyOk(r, n) ==
    ~(\/ r.a_start + r.num_bits > n
      \/ r.b_start + r.num_bits > n
      \/ r.result_start + r.num_bits + 1 > n)

\* QuantumComparator comparator(...); comparator.apply(state);
ComparatorOutcome(r, n, size, amps) ==
    IF ~ComparatorCtorOk(r) THEN [status |-> "ctor_invalid_argument", amps |-> amps]
    ELSE IF ~ComparatorApplyOk(r, n)
    THEN [status |-> "apply_invalid_argument", amps |-> amps]
    ELSE Propagate(RunGates(ComparatorGates(r), n, size, [status |-> "ok", amps |-> amps]))

---------------------------------------------------------------------------
(* SpecAdder, SpecComparator: a test harness allocates a store, stages one  *)
(* basis state in it, and constructs and applies one composite circuit.     *)
(* A layout l has a_start, b_start, third_start (the carry or result        *)
(* register, num_bits + 1 qubits wide) and num_bits.                        *)

\* the value of the count-bit register starting at qubit start, in index k
Field(k, start, count) == (k \div Pow2(start)) % Pow2(count)

Extent(start, count) == start .. start + count - 1

\* the three registers lie inside the store and share no qubit
Disjoint(l, n) ==
    LET ra == Extent(l.a_start, l.num_bits)
        rb == Extent(l.b_start, l.num_bits)
        rc == Extent(l.third_start, l.num_bits + 1)
    IN /\ l.num_bits >= 1
       /\ (ra \cup rb \cup rc) \subseteq 0 .. n - 1
       /\ ra \cap rb = {} /\ ra \cap rc = {} /\ rb \cap rc = {}

Layouts(starts, bits) ==
    {[a_start |-> a, b_start |-> b, third_start |-> c, num_bits |-> nb] :
        a \in starts, b \in starts, c \in starts, nb \in bits}

\* stores the registers fill, or fill but for one qubit: the registers apart,
\* operands A and B of every value, the third register holding 0 .. MaxCarryIn.
\* f is <<num_bits, n>>.
FittedRuns ==
    UNION {
        {[n |-> f[2], layout |-> l,
          input |-> A * Pow2(l.a_start) + B * Pow2(l.b_start) + C * Pow2(l.third_start)] :
            l \in {x \in Layouts(0 .. f[2] - 1, {f[1]}) : Disjoint(x, f[2])},
            A \in 0 .. Pow2(f[1]) - 1, B \in 0 .. Pow2(f[1]) - 1, C \in 0 .. MaxCarryIn}
        : f \in {x \in (1 .. MaxStoreQubits) \X (1 .. MaxStoreQubits) :
                    x[2] = 3 * x[1] + 1 \/ x[2] = 3 * x[1] + 2}}

\* a small store with the registers anywhere, also overlapping, out of the
\* store or empty, and every basis state
SmallRuns ==
    {[n |-> SmallStore, layout |-> l, input |-> k] :
        l \in Layouts(0 - 1 .. SmallStore - 1, 0 .. (SmallStore - 1) \div 3),
        k \in Indices(Pow2(SmallStore))}

\* a store one qubit larger than the small one, the registers apart, and
\* every basis state: also states with a qubit set that is outside the
\* registers, and with any content in the third register
SpareRuns ==
    {[n |-> SmallStore + 1, layout |-> l, input |-> k] :
        l \in {x \in Layouts(0 .. SmallStore, 1 .. (SmallStore - 1) \div 3) :
                  Disjoint(x, SmallStore + 1)},
        k \in Indices(Pow2(SmallStore + 1))}

Runs == FittedRuns \cup SmallRuns \cup SpareRuns

AdderOf(l) ==
    [a_start |-> l.a_start, b_start |-> l.b_start, carry_start |-> l.third_start,
     num_bits |-> l.num_bits]

ComparatorOf(l) ==
    [a_start |-> l.a_start, b_start |-> l.b_start, result_start |-> l.third_start,
     num_bits |-> l.num_bits]

\* QuantumState state(n); state.setAmplitude(0, 0); state.setAmplitude(input, 1);
StagedRun(circuit, run) ==
    /\ Staged(run.n, Basis(Pow2(run.n), run.input))
    /\ regs = [circuit |-> circuit, layout |-> run.layout, input |-> run.input]
    /\ main = NoMain

InitAdder == \E run \in Runs : StagedRun("adder", run)

InitComparator == \E run \in Runs : StagedRun("comparator", run)

CircuitCall(r) ==
    /\ calls = 0
    /\ status' = r.status
    /\ amplitudes' = r.amps
    /\ calls' = calls + 1
    /\ UNCHANGED <<num_qubits, state_size, initial, gate, regs, main>>

AdderCall ==
    /\ regs.circuit = "adder"
    /\ CircuitCall(AdderOutcome(AdderOf(regs.layout), num_qubits, state_size, amplitudes))

ComparatorCall ==
    /\ regs.circuit = "comparator"
    /\ CircuitCall(ComparatorOutcome(ComparatorOf(regs.layout), num_qubits, state_size,
                                     amplitudes))

SpecAdder == InitAdder /\ [][AdderCall]_vars

SpecComparator == InitComparator /\ [][ComparatorCall]_vars

---------------------------------------------------------------------------
(* SpecMain: main() of modular_exponentiation/main.cpp.  The variable main  *)
(* holds its locals; pc names the place the run has reached.                *)

RECURSIVE GCD(_, _)
\* gcd(a, b): Euclid's algorithm
GCD(a, b) == IF b # 0 THEN GCD(b, a % b) ELSE a

RECURSIVE ShiftCount(_)
\* while (temp > 0) { temp >>= 1; target_qubits++; }
ShiftCount(temp) == IF temp > 0 THEN 1 + ShiftCount(temp \div 2) ELSE 0

\* mutant of TargetQubits: the bits of modulus counted, not of modulus - 1
TargetQubitsOfModulus(modulus) ==
    IF ShiftCount(modulus) = 0 THEN 1 ELSE ShiftCount(modulus)

\* the target register's size
TargetQubits(modulus) ==
    IF ShiftCount(modulus - 1) = 0 THEN 1 ELSE ShiftCount(modulus - 1)

RECURSIVE Powers(_, _, _)
\* powers[i] = base^(2^i) mod modulus by repeated squaring, i < count
Powers(current_power, modulus, count) ==
    IF count = 0 THEN <<>>
    ELSE <<current_power>> \o Powers((current_power * current_power) % modulus, modulus,
                                     count - 1)

\* the input passes main()'s checks
InputOk(base, modulus, nq) ==
    /\ ~(base = 0 \/ modulus = 0 \/ nq <= 0)
    /\ ~(nq > MaxNumQubits)
    /\ ~(modulus >= ModulusLimit)
    /\ ~(GCD(base, modulus) # 1)

\* p < q for real p, q
Less(p, q) == CRealSign(CSub(q, p)) = 1

RECURSIVE MostLikely(_, _, _, _, _, _)
\* the scan over y of the verification loop: acc is [max_prob, most_likely_target]
MostLikely(y, x, nq, tq, amps, acc) ==
    IF y >= Pow2(tq) THEN acc
    ELSE LET prob == GetProbability(amps, y * Pow2(nq) + x)
             found == IF Less(acc.max_prob, prob)
                      THEN [max_prob |-> prob, most_likely_target |-> y]
                      ELSE acc
         IN IF found.most_likely_target = found.most_likely_target
            THEN MostLikely(y + 1, x, nq, tq, amps, found)
            ELSE found

RECURSIVE Classical(_, _, _, _, _, _)
\* the classical square-and-multiply of the verification loop
Classical(bit, nq, exponent, base_pow, modulus, classical_result) ==
    IF bit >= nq THEN classical_result
    ELSE Classical(bit + 1, nq, exponent, (base_pow * base_pow) % modulus, modulus,
             IF Bit(exponent, bit) = 1
             THEN (classical_result * base_pow) % modulus
             ELSE classical_result)

\* 1.0 / (1 << num_qubits)
ExpectedProb(nq) == <<1, 0, 0, 0, nq>>

CAbs(p) == IF CRealSign(p) < 0 THEN CNeg(p) ELSE p

\* std::abs(max_prob - expected_prob) / expected_prob < 0.01
SmallError(max_prob, expected_prob) ==
    Less(CMul(Complex(100, 0), CAbs(CSub(max_prob, expected_prob))), expected_prob)

\* bool passed, for control value x
Passed(x, m, amps) ==
    LET found == MostLikely(0, x, m.num_qubits, m.target_qubits, amps,
                            [max_prob |-> CZero, most_likely_target |-> 0])
    IN /\ found.most_likely_target
              = Classical(0, m.num_qubits, x, m.base % m.modulus, m.modulus, 1)
       /\ SmallError(found.max_prob, ExpectedProb(m.num_qubits))

InitMain ==
    /\ \E base \in 0 .. MaxBase, modulus \in 0 .. MaxModulus, nq \in 0 .. MaxCtl :
          main = [pc |-> "read", base |-> base, modulus |-> modulus, num_qubits |-> nq,
                  target_qubits |-> 0, i |-> 0, powers |-> <<>>,
                  num_passed |-> 0, num_tests |-> 0]
    /\ num_qubits = 0
    /\ state_size = 0
    /\ amplitudes = <<>>
    /\ initial = <<>>
    /\ gate = NoGate
    /\ calls = 0
    /\ status = "none"
    /\ regs = NoRegs

\* the input checks: return 1, or go on
Validate ==
    /\ main.pc = "read"
    /\ main' = [main EXCEPT !.pc = IF InputOk(main.base, main.modulus, main.num_qubits)
                                   THEN "allocate" ELSE "rejected"]
    /\ UNCHANGED <<storeVars, histVars, regs>>

\* mutant of Allocation: amplitude 1 put at index 1, not at 1 << num_qubits
AllocationIndexOne ==
    /\ main.pc = "allocate"
    /\ LET target_qubits == TargetQubits(main.modulus)
           total_qubits == main.num_qubits + target_qubits
           state == SetAmplitude(SetAmplitude(Allocate(total_qubits), 0, Complex(0, 0)),
                                 1, Complex(1, 0))
       IN /\ main' = [main EXCEPT !.pc = "hadamard", !.target_qubits = target_qubits,
                                  !.i = 0]
          /\ num_qubits' = total_qubits
          /\ state_size' = Pow2(total_qubits)
          /\ amplitudes' = state
          /\ initial' = state
    /\ UNCHANGED <<gate, calls, status, regs>>

\* steps 1 and 2: the register sizes, the store, the target register set to 1
Allocation ==
    /\ main.pc = "allocate"
    /\ LET target_qubits == TargetQubits(main.modulus)
           total_qubits == main.num_qubits + target_qubits
           state == SetAmplitude(SetAmplitude(Allocate(total_qubits), 0, Complex(0, 0)),
                                 Pow2(main.num_qubits), Complex(1, 0))
       IN /\ main' = [main EXCEPT !.pc = "hadamard", !.target_qubits = target_qubits,
                                  !.i = 0]
          /\ num_qubits' = total_qubits
          /\ state_size' = Pow2(total_qubits)
          /\ amplitudes' = state
          /\ initial' = state
    /\ UNCHANGED <<gate, calls, status, regs>>

\* construct g and apply it; an exception ends the run
MainCall(g, next_pc) ==
    /\ \E r \in Outcomes(g, num_qubits, state_size, amplitudes) :
          /\ status' = r.status
          /\ amplitudes' = r.amps
          /\ main' = [main EXCEPT !.pc = IF r.status = "ok" THEN next_pc ELSE "aborted",
                                  !.i = main.i + 1]
    /\ gate' = g
    /\ calls' = calls + 1
    /\ UNCHANGED <<num_qubits, state_size, initial, regs>>

\* step 3, one iteration: HadamardGate H(i); H.apply(state);
HadamardIteration ==
    /\ main.pc = "hadamard"
    /\ main.i < main.num_qubits
    /\ MainCall(Hadamard(main.i), "hadamard")

\* step 4: the powers of base
Precompute ==
    /\ main.pc = "hadamard"
    /\ ~(main.i < main.num_qubits)
    /\ main' = [main EXCEPT !.pc = "multiply", !.i = 0,
                            !.powers = Powers(main.base % main.modulus, main.modulus,
                                              main.num_qubits)]
    /\ UNCHANGED <<storeVars, histVars, regs>>

\* step 5, one iteration: ControlledModMultGate gate(...); gate.apply(state);
\* (powers is indexed from 0 in the source, from 1 here)
MultiplyIteration ==
    /\ main.pc = "multiply"
    /\ main.i < main.num_qubits
    /\ MainCall(ModMult(main.i, main.num_qubits, main.target_qubits,
                        main.powers[main.i + 1], main.modulus), "multiply")

\* step 6: the comparison with the classical results, then return 0
Verification ==
    /\ main.pc = "multiply"
    /\ ~(main.i < main.num_qubits)
    /\ main' = [main EXCEPT !.pc = "done",
                   !.num_tests = Pow2(main.num_qubits),
                   !.num_passed = Cardinality({x \in 0 .. Pow2(main.num_qubits) - 1 :
                                                  Passed(x, main, amplitudes)})]
    /\ UNCHANGED <<storeVars, histVars, regs>>

NextMain ==
    \/ Validate
    \/ Allocation
    \/ HadamardIteration
    \/ Precompute
    \/ MultiplyIteration
    \/ Verification

SpecMain == InitMain /\ [][NextMain]_vars

---------------------------------------------------------------------------
(* SpecWidth: step 1 of main() alone, for every modulus the input checks    *)
(* let through.                                                             *)

InitWidth ==
    /\ \E modulus \in 1 .. ModulusLimit - 1 :
          main = [pc |-> "allocate", modulus |-> modulus, target_qubits |-> 0]
    /\ num_qubits = 0
    /\ state_size = 0
    /\ amplitudes = <<>>
    /\ initial = <<>>
    /\ gate = NoGate
    /\ calls = 0
    /\ status = "none"
    /\ regs = NoRegs

\* int target_qubits = 0; ...; if (target_qubits == 0) target_qubits = 1;
TargetWidth ==
    /\ main.pc = "allocate"
    /\ main' = [main EXCEPT !.pc = "sized",
                            !.target_qubits = TargetQubits(main.modulus)]
    /\ UNCHANGED <<storeVars, histVars, regs>>

SpecWidth == InitWidth /\ [][TargetWidth]_vars

---------------------------------------------------------------------------
(* SpecValidation: a caller constructs one gate from any arguments, also    *)
(* negative, coinciding or beyond the store, applies it to a staged store,  *)
(* and applies the same gate object to a second store of another size.     *)

\* the arguments passed for a qubit index
Args == 0 - 1 .. MaxQubits

\* a store of n qubits with a distinct non-zero amplitude at every index
StagedFull(n) == Staged(n, Ramp(Pow2(n), Indices(Pow2(n))))

InitValidation ==
    /\ \E n \in 1 .. MaxQubits : StagedFull(n)
    /\ regs = NoRegs
    /\ main = NoMain

\* QuantumState state2(n); ...; g.apply(state2); with the gate object g that
\* the first call constructed
Reapply ==
    /\ calls = 1
    /\ status # "ctor_invalid_argument"
    /\ \E n \in 1 .. MaxQubits + 1 :
          /\ num_qubits' = n
          /\ state_size' = Pow2(n)
          /\ initial' = Ramp(Pow2(n), Indices(Pow2(n)))
          /\ \E r \in Outcomes(gate, n, Pow2(n), Ramp(Pow2(n), Indices(Pow2(n)))) :
                /\ status' = r.status
                /\ amplitudes' = r.amps
    /\ calls' = calls + 1
    /\ UNCHANGED <<gate, regs, main>>

NextValidation ==
    \/ calls = 0 /\ ApplyHadamard(Args)
    \/ calls = 0 /\ ApplyX(Args)
    \/ calls = 0 /\ ApplyCNOT(Args)
    \/ calls = 0 /\ ApplySWAP(Args)
    \/ calls = 0 /\ ApplyToffoli(Args)
    \/ calls = 0 /\ ApplyPhaseShift(Args)
    \/ calls = 0 /\ ApplyModMult(Args, 0 .. 2, 0 .. MaxMult, 0 .. MaxMod)
    \/ Reapply

SpecValidation == InitValidation /\ [][NextValidation]_vars

---------------------------------------------------------------------------
(* SpecStore: a caller constructs a QuantumState and then reads and writes  *)
(* it through getAmplitude, setAmplitude and getProbability.  gate holds    *)
(* the most recent call, main the value it returned to the caller.          *)

\* mutant of SetAmplitudeOutcome: the lower bound of the index not checked
SetAmplitudeNoLowerCheck(amps, size, index, amplitude) ==
    IF index >= size
    THEN [status |-> "out_of_range", amps |-> amps]
    ELSE [status |-> "ok", amps |-> [i \in DOMAIN amps |->
                                        IF i = index % size THEN amplitude ELSE amps[i]]]

NoStore == [num_qubits |-> 0, state_size |-> 0, amplitudes |-> <<>>]

\* QuantumState state(n);
Construct(n) ==
    IF n <= 0
    THEN [status |-> "invalid_argument", store |-> NoStore]
    ELSE [status |-> "ok",
          store |-> [num_qubits |-> n, state_size |-> Pow2(n), amplitudes |-> Allocate(n)]]

\* index < 0 || index >= state_size
OutOfRange(index, size) == index < 0 \/ index >= size

\* state.setAmplitude(index, amplitude)
SetAmplitudeOutcome(amps, size, index, amplitude) ==
    IF OutOfRange(index, size)
    THEN [status |-> "out_of_range", amps |-> amps]
    ELSE [status |-> "ok", amps |-> SetAmplitude(amps, index, amplitude)]

\* state.getAmplitude(index); nothing is returned when it throws
GetAmplitudeOutcome(amps, size, index) ==
    IF OutOfRange(index, size)
    THEN [status |-> "out_of_range", returned |-> "nothing"]
    ELSE [status |-> "ok", returned |-> amps[index]]

\* state.getProbability(index)
GetProbabilityOutcome(amps, size, index) ==
    IF OutOfRange(index, size)
    THEN [status |-> "out_of_range", returned |-> "nothing"]
    ELSE [status |-> "ok", returned |-> GetProbability(amps, index)]

Caller(returned) == [pc |-> "caller", returned |-> returned]

\* the values the caller writes
Written == {CZero, Complex(0, 1)}

\* the indices the caller passes: every valid one and one past either end
IndexArgs == 0 - 1 .. state_size

InitStore ==
    /\ num_qubits = 0
    /\ state_size = 0
    /\ amplitudes = <<>>
    /\ initial = <<>>
    /\ gate = NoGate
    /\ calls = 0
    /\ status = "none"
    /\ regs = NoRegs
    /\ main = Caller("nothing")

ConstructCall ==
    /\ calls = 0
    /\ \E n \in 0 - 1 .. MaxQubits :
          LET r == Construct(n)
          IN /\ gate' = [kind |-> "QuantumState", n |-> n]
             /\ status' = r.status
             /\ num_qubits' = r.store.num_qubits
             /\ state_size' = r.store.state_size
             /\ amplitudes' = r.store.amplitudes
             /\ initial' = r.store.amplitudes
    /\ calls' = calls + 1
    /\ UNCHANGED <<regs, main>>

\* the store exists and the caller goes on using it
StoreInUse == num_qubits > 0 /\ calls >= 1 /\ calls <= MaxStoreOps

SetAmplitudeCall ==
    /\ StoreInUse
    /\ \E index \in IndexArgs, amplitude \in Written :
          LET r == SetAmplitudeOutcome(amplitudes, state_size, index, amplitude)
          IN /\ gate' = [kind |-> "setAmplitude", index |-> index, value |-> amplitude]
             /\ status' = r.status
             /\ amplitudes' = r.amps
    /\ calls' = calls + 1
    /\ main' = Caller("nothing")
    /\ UNCHANGED <<num_qubits, state_size, initial, regs>>

GetAmplitudeCall ==
    /\ StoreInUse
    /\ \E index \in IndexArgs :
          LET r == GetAmplitudeOutcome(amplitudes, state_size, index)
          IN /\ gate' = [kind |-> "getAmplitude", index |-> index]
             /\ status' = r.status
             /\ main' = Caller(r.returned)
    /\ calls' = calls + 1
    /\ UNCHANGED <<storeVars, initial, regs>>

GetProbabilityCall ==
    /\ StoreInUse
    /\ \E index \in IndexArgs :
          LET r == GetProbabilityOutcome(amplitudes, state_size, index)
          IN /\ gate' = [kind |-> "getProbability", index |-> index]
             /\ status' = r.status
             /\ main' = Caller(r.returned)
    /\ calls' = calls + 1
    /\ UNCHANGED <<storeVars, initial, regs>>

NextStore ==
    \/ ConstructCall
    \/ SetAmplitudeCall
    \/ GetAmplitudeCall
    \/ GetProbabilityCall

SpecStore == InitStore /\ [][NextStore]_vars

---------------------------------------------------------------------------
(* Properties of the primitive gates *)

FullRamp == initial = Ramp(state_size, Indices(state_size))

\* C3: after any sequence of successfully applied Hadamard, PauliX,
\* ControlledNot, SWAP, Toffoli and PhaseShift gates on a freshly allocated
\* store, the squared magnitudes of all entries sum to exactly 1.
C3_Normalized == IsNormalized(amplitudes, state_size)

C3_Witness ==
    /\ calls = MaxGates
    /\ gate.kind = "PhaseShift"
    /\ \E i \in Indices(state_size) : amplitudes[i] \notin {CZero, COne} /\ amplitudes[i][5] > 0

C9_Hadamard ==
    (gate.kind = "Hadamard" /\ status = "ok") =>
        /\ calls = 1 =>
              \A i \in Indices(state_size) :
                  Bit(i, gate.target) = 0 =>
                      LET j == i + Pow2(gate.target)
                      IN /\ CMul(amplitudes[i], Sqrt2) = CAdd(initial[i], initial[j])
                         /\ CMul(amplitudes[j], Sqrt2) = CSub(initial[i], initial[j])
        /\ calls = 2 => amplitudes = initial
        /\ calls = 1 =>
              \A k \in Indices(state_size) :
                  (initial = Basis(state_size, k) /\ Bit(k, gate.target) = 1) =>
                      CRealSign(amplitudes[k]) = 0 - 1 /\ CImagSign(amplitudes[k]) = 0

C9_Witness ==
    /\ gate.kind = "Hadamard"
    /\ status = "ok"
    /\ calls = 2
    /\ num_qubits >= 2
    /\ FullRamp

\* C10: ControlledNot(control, target) leaves at each index i with bit control
\* set the old amplitude of i with bit target flipped, and leaves every index
\* with bit control clear as it was.
C10_CNOT ==
    (calls = 1 /\ gate.kind = "CNOT" /\ status = "ok") =>
        \A i \in Indices(state_size) :
            amplitudes[i] = IF Bit(i, gate.control) = 1
                            THEN initial[FlipBit(i, gate.target)]
                            ELSE initial[i]

C10_Witness ==
    /\ calls = 1
    /\ gate.kind = "CNOT"
    /\ status = "ok"
    /\ num_qubits = MaxQubits
    /\ FullRamp

\* the index whose target field holds value and whose other bits are those of i
WithField(i, g, value) ==
    i - ExtractTarget(i, g.target_start, g.target_count) * Pow2(g.target_start)
      + value * Pow2(g.target_start)

\* one successful ControlledModularMultiply whose modulus fits the target field
ModMultDone ==
    /\ calls = 1
    /\ gate.kind = "ModMult"
    /\ status = "ok"
    /\ gate.modulus <= Pow2(gate.target_count)

\* C8: ControlledModularMultiply leaves the amplitude at every index whose
\* control bit is 0 as it was before apply.
C8_ModMultFrame ==
    (calls = 1 /\ gate.kind = "ModMult" /\ status = "ok") =>
        \A i \in Indices(state_size) :
            Bit(i, gate.control) = 0 => amplitudes[i] = initial[i]

C8_Witness ==
    /\ calls = 1
    /\ gate.kind = "ModMult"
    /\ status = "ok"
    /\ FullRamp
    /\ amplitudes # initial

\* C1: with gcd(multiplier, modulus) = 1 and zero amplitude on every index
\* whose target field is >= modulus, ControlledModularMultiply moves the
\* amplitude of each control=1 index with field y to the index with field
\* (multiplier*y) mod modulus and leaves the total probability as it was.
C1_ModMultUnitary ==
    (/\ ModMultDone
     /\ GCD(gate.multiplier, gate.modulus) = 1
     /\ \A i \in Indices(state_size) :
           ExtractTarget(i, gate.target_start, gate.target_count) >= gate.modulus
               => initial[i] = CZero)
    => /\ TotalProb(amplitudes, state_size) = TotalProb(initial, state_size)
       /\ \A i \in Indices(state_size) :
             LET y == ExtractTarget(i, gate.target_start, gate.target_count)
             IN (Bit(i, gate.control) = 1 /\ y < gate.modulus) =>
                    amplitudes[WithField(i, gate, (gate.multiplier * y) % gate.modulus)]
                        = initial[i]

\* C7: on a basis state whose control bit is 1 and whose target field holds y,
\* ControlledModularMultiply yields exactly the basis state whose target field
\* is (multiplier*y) mod modulus, every other bit as before.
C7_ModMultBasis ==
    ModMultDone =>
        \A k \in Indices(state_size) :
            (initial = Basis(state_size, k) /\ Bit(k, gate.control) = 1) =>
                LET y == ExtractTarget(k, gate.target_start, gate.target_count)
                IN amplitudes
                       = Basis(state_size,
                               WithField(k, gate, (gate.multiplier * y) % gate.modulus))

\* one successful call of a gate of the given kind on the staged store
Applied(kind) == calls = 1 /\ gate.kind = kind /\ status = "ok"

\* C11: Toffoli(control1, control2, target) exchanges the amplitudes of the
\* two indices that differ only in bit target iff both control bits are set
\* in them, and leaves every other amplitude as it was; on a basis state with
\* the target bit clear, the target bit becomes the AND of the control bits.
C11_Toffoli ==
    Applied("Toffoli") =>
        /\ \A i \in Indices(state_size) :
              amplitudes[i] = IF Bit(i, gate.control1) = 1 /\ Bit(i, gate.control2) = 1
                              THEN initial[FlipBit(i, gate.target)]
                              ELSE initial[i]
        /\ \A k \in Indices(state_size) :
              (initial = Basis(state_size, k) /\ Bit(k, gate.target) = 0) =>
                  amplitudes = Basis(state_size,
                                   k + Bit(k, gate.control1) * Bit(k, gate.control2)
                                       * Pow2(gate.target))

C11_Witness ==
    /\ Applied("Toffoli")
    /\ num_qubits = MaxQubits
    /\ FullRamp
    /\ amplitudes # initial

\* C12: SWAP(q1, q2) leaves at each index where bits q1 and q2 differ the old
\* amplitude of the index with both bits flipped, and leaves every index
\* where the two bits agree as it was.
C12_SWAP ==
    Applied("SWAP") =>
        \A i \in Indices(state_size) :
            amplitudes[i] = IF Bit(i, gate.qubit1) # Bit(i, gate.qubit2)
                            THEN initial[FlipBit(FlipBit(i, gate.qubit1), gate.qubit2)]
                            ELSE initial[i]

C12_Witness ==
    /\ Applied("SWAP")
    /\ num_qubits = MaxQubits
    /\ FullRamp
    /\ amplitudes # initial

\* cos(angle) + i*sin(angle) at angle = m*pi/4, by the unit circle: the real
\* and the imaginary part of the m-th eighth root of unity.  h is sqrt2/2.
UnitCircle(m) ==
    LET h == <<0, 1, 0, 0, 1>>
        cos == CASE m % 8 \in {0} -> COne
                 [] m % 8 \in {1, 7} -> h
                 [] m % 8 \in {2, 6} -> CZero
                 [] m % 8 \in {3, 5} -> CNeg(h)
                 [] m % 8 \in {4} -> CNeg(COne)
        sin == CASE m % 8 \in {0, 4} -> CZero
                 [] m % 8 \in {1, 3} -> h
                 [] m % 8 \in {2} -> COne
                 [] m % 8 \in {5, 7} -> CNeg(h)
                 [] m % 8 \in {6} -> CNeg(COne)
    IN CAdd(cos, CMul(Complex(0, 1), sin))

\* C13: PhaseShift(target, angle) leaves every amplitude whose index has bit
\* target clear as it was and multiplies every other amplitude exactly once by
\* cos(angle) + i*sin(angle); angle pi/2 turns 1 into i and angle pi turns 1
\* into -1.
C13_PhaseShift ==
    Applied("PhaseShift") =>
        /\ \A i \in Indices(state_size) :
              amplitudes[i] = IF Bit(i, gate.target) = 1
                              THEN CMul(initial[i], UnitCircle(gate.angle))
                              ELSE initial[i]
        /\ \A k \in Indices(state_size) :
              (initial = Basis(state_size, k) /\ Bit(k, gate.target) = 1) =>
                  /\ gate.angle = 2 => amplitudes[k] = Complex(0, 1)
                  /\ gate.angle = 4 => amplitudes[k] = Complex(0 - 1, 0)

C13_Witness ==
    /\ Applied("PhaseShift")
    /\ gate.angle = 3
    /\ num_qubits >= 2
    /\ FullRamp
    /\ amplitudes # initial

\* the vector amps holds probability 1/2 at index 0 and at the index with
\* exactly bits c and t set, probability 0 everywhere else, and is normalized
BellPair(amps, size, c, t) ==
    /\ \A i \in Indices(size) :
          GetProbability(amps, i)
              = IF i \in {0, Pow2(c) + Pow2(t)} THEN <<1, 0, 0, 0, 1>> ELSE CZero
    /\ IsNormalized(amps, size)

\* the step that applies ControlledNot(c, t) right after Hadamard(c) was
\* applied to the freshly allocated store
BellStep ==
    /\ calls = 1 /\ gate.kind = "Hadamard" /\ status = "ok"
    /\ calls' = 2 /\ gate'.kind = "CNOT" /\ status' = "ok"
    /\ gate'.control = gate.target

\* C14: on a freshly allocated store, Hadamard(c) followed by
\* ControlledNot(c, t) leaves probability 0.5 at index 0, 0.5 at the index
\* with exactly bits c and t set, 0 at every other index, and a normalized
\* state.
C14_Bell ==
    [][BellStep => BellPair(amplitudes', state_size', gate'.control, gate'.target)]_vars

C14_Witness ==
    /\ calls = 2 /\ gate.kind = "CNOT" /\ status = "ok"
    /\ num_qubits = MaxQubits
    /\ gate.control = 2 /\ gate.target = 0
    /\ amplitudes[0] = INV_SQRT2
    /\ amplitudes[5] = INV_SQRT2

---------------------------------------------------------------------------
(* Properties of the amplitude store *)

\* C15: QuantumState(n) with n >= 1 creates exactly 2^n amplitudes, 1 at
\* index 0 and 0 at every other index, with qubit count n and state size 2^n;
\* with n <= 0 it fails with invalid_argument and no store exists.
C15_Allocate ==
    (gate.kind = "QuantumState" /\ calls = 1) =>
        IF gate.n >= 1
        THEN /\ status = "ok"
             /\ num_qubits = gate.n
             /\ state_size = 2 ^ gate.n
             /\ DOMAIN amplitudes = 0 .. 2 ^ gate.n - 1
             /\ \A i \in DOMAIN amplitudes :
                   amplitudes[i] = IF i = 0 THEN COne ELSE CZero
        ELSE /\ status = "invalid_argument"
             /\ num_qubits = 0
             /\ state_size = 0
             /\ amplitudes = <<>>

C15_Witness ==
    /\ gate.kind = "QuantumState"
    /\ calls = 1
    /\ gate.n = MaxQubits
    /\ status = "ok"
    /\ Cardinality(DOMAIN amplitudes) = 2 ^ MaxQubits

\* a step that calls getAmplitude, setAmplitude or getProbability
StoreAccess == gate'.kind \in {"getAmplitude", "setAmplitude", "getProbability"}

\* C16: getAmplitude, setAmplitude and getProbability fail with out_of_range
\* iff the index is outside [0, 2^n); a failed setAmplitude changes no
\* amplitude; a successful one changes the entry at index to the value and
\* leaves every other entry, the qubit count and the state size as they were;
\* getAmplitude right after a successful setAmplitude at the same index
\* returns the value set.
C16_IndexedAccess ==
    [][StoreAccess =>
          /\ status' \in {"ok", "out_of_range"}
          /\ status' = "out_of_range" <=> gate'.index \notin 0 .. 2 ^ num_qubits - 1
          /\ num_qubits' = num_qubits /\ state_size' = state_size
          /\ DOMAIN amplitudes' = DOMAIN amplitudes
          /\ (gate'.kind = "setAmplitude" /\ status' = "out_of_range")
                 => amplitudes' = amplitudes
          /\ (gate'.kind = "setAmplitude" /\ status' = "ok")
                 => \A i \in DOMAIN amplitudes :
                        amplitudes'[i] = IF i = gate'.index THEN gate'.value
                                         ELSE amplitudes[i]
          /\ (/\ gate.kind = "setAmplitude" /\ status = "ok"
              /\ gate'.kind = "getAmplitude" /\ gate'.index = gate.index)
                 => main'.returned = gate.value
      ]_vars

C16_Witness ==
    /\ gate.kind = "getAmplitude"
    /\ status = "ok"
    /\ num_qubits = MaxQubits
    /\ gate.index = state_size - 1
    /\ main.returned = Complex(0, 1)

---------------------------------------------------------------------------
(* Properties of the gates' validation *)

\* the qubit indices a gate is constructed from
QubitArgs(g) ==
    CASE g.kind \in {"Hadamard", "X", "PhaseShift"} -> {g.target}
      [] g.kind = "CNOT" -> {g.control, g.target}
      [] g.kind = "SWAP" -> {g.qubit1, g.qubit2}
      [] g.kind = "Toffoli" -> {g.control1, g.control2, g.target}
      [] g.kind = "ModMult" -> {g.control, g.target_start}

\* the roles of a gate that must be distinct coincide
Coincide(g) ==
    CASE g.kind \in {"Hadamard", "X", "PhaseShift"} -> FALSE
      [] g.kind = "CNOT" -> g.control = g.target
      [] g.kind = "SWAP" -> g.qubit1 = g.qubit2
      [] g.kind = "Toffoli" -> Cardinality({g.control1, g.control2, g.target}) < 3
      [] g.kind = "ModMult" ->
            \/ g.multiplier = 0
            \/ g.modulus = 0
            \/ g.target_count <= 0
            \/ g.control \in g.target_start .. g.target_start + g.target_count - 1

\* C17: constructing a gate fails with invalid_argument exactly when a qubit
\* index is negative, or control = target (ControlledNot), or q1 = q2 (SWAP),
\* or two of the three indices coincide (Toffoli), or multiplier = 0,
\* modulus = 0, targetCount <= 0 or control inside the target field
\* (ControlledModularMultiply); every other argument combination constructs.
C17_CtorValidation ==
    (calls = 1 /\ gate.kind # "none") =>
        (status = "ctor_invalid_argument"
             <=> ((\E q \in QubitArgs(gate) : q < 0) \/ Coincide(gate)))

C17_Witness ==
    /\ calls = 1
    /\ gate.kind = "Toffoli"
    /\ gate.control1 = gate.control2
    /\ gate.control1 >= 0 /\ gate.target >= 0 /\ gate.target # gate.control1
    /\ status = "ctor_invalid_argument"
    /\ amplitudes = initial

\* the qubits a gate touches
Touches(g) ==
    IF g.kind = "ModMult"
    THEN {g.control} \cup (g.target_start .. g.target_start + g.target_count - 1)
    ELSE QubitArgs(g)

\* some qubit the gate touches is not a qubit of a store of n qubits
BeyondStore(g, n) == \E q \in Touches(g) : q >= n

\* a constructed gate has been applied to a staged store
ApplyReturned == calls \in {1, 2} /\ gate.kind # "none" /\ status # "ctor_invalid_argument"

\* the check precedes every write: apply fails with invalid_argument iff
\* some qubit the gate touches is >= n, and then the store is as it was
ApplyValidation ==
    ApplyReturned =>
        /\ status = "apply_invalid_argument" <=> BeyondStore(gate, num_qubits)
        /\ status = "apply_invalid_argument" => amplitudes = initial

\* C18: apply fails with invalid_argument iff some qubit the gate touches is
\* >= n (ControlledModularMultiply: control >= n or targetStart + targetCount
\* > n); on failure every amplitude of the store is as it was; and the same
\* gate succeeds on a store that is large enough.
C18_ApplyValidation ==
    ApplyReturned =>
        /\ status = "apply_invalid_argument" <=> BeyondStore(gate, num_qubits)
        /\ status = "apply_invalid_argument" => amplitudes = initial
        /\ ~BeyondStore(gate, num_qubits) => status = "ok"

\* C30: for every ControlledModMultGate that passes its constructor's and
\* apply's validation (whatever modulus is, compared to 2^targetCount), every
\* destination index j that apply computes lies in [0, 2^n) and differs from
\* its source index i only in bits of the target field.
C30_IndexSafety ==
    (/\ calls >= 1
     /\ gate.kind = "ModMult"
     /\ CtorOk(gate)
     /\ ApplyOk(gate, num_qubits)) =>
        \A i \in Indices(state_size) :
            Bit(i, gate.control) # 0 =>
                LET j == ModMultDest(i, gate)
                IN /\ j >= 0
                   /\ j < state_size
                   /\ \A q \in 0 .. MaxQubits + 2 :
                          q \notin Extent(gate.target_start, gate.target_count)
                              => Bit(j, q) = Bit(i, q)

---------------------------------------------------------------------------
(* Properties of the composite circuits *)

\* the circuit ran to its end on registers that lie apart
CircuitDone ==
    /\ calls = 1
    /\ status = "ok"
    /\ Disjoint(regs.layout, num_qubits)

\* the index of a non-zero amplitude
Support == {k \in Indices(state_size) : amplitudes[k] # CZero}

\* the store holds exactly the basis state |k>
IsBasis(k) == amplitudes = Basis(state_size, k)

OperandA == Field(regs.input, regs.layout.a_start, regs.layout.num_bits)
OperandB == Field(regs.input, regs.layout.b_start, regs.layout.num_bits)
ThirdIn == Field(regs.input, regs.layout.third_start, regs.layout.num_bits + 1)

\* C5: with registers apart and the carry register zero, QuantumAdder maps
\* |A>|B>|0> to one basis state of probability 1 in which register A holds A,
\* register B holds (A+B) mod 2^num_bits and Carry[num_bits] is 1 iff
\* A+B >= 2^num_bits.
C5_Adder ==
    (regs.circuit = "adder" /\ CircuitDone /\ ThirdIn = 0) =>
        \E k \in Support :
            /\ IsBasis(k)
            /\ GetProbability(amplitudes, k) = COne
            /\ Field(k, regs.layout.a_start, regs.layout.num_bits) = OperandA
            /\ Field(k, regs.layout.b_start, regs.layout.num_bits)
                   = (OperandA + OperandB) % Pow2(regs.layout.num_bits)
            /\ Bit(k, regs.layout.third_start + regs.layout.num_bits) = 1
                   <=> OperandA + OperandB >= Pow2(regs.layout.num_bits)

C5_Witness ==
    /\ regs.circuit = "adder"
    /\ CircuitDone
    /\ ThirdIn = 0
    /\ regs.layout.num_bits = 2
    /\ OperandA = 3
    /\ OperandB = 1
    /\ amplitudes # initial

\* C6: with registers apart and the num_bits+1 result qubits zero, after
\* QuantumComparator the last result qubit (result_start + num_bits) is 1 iff
\* A = B.
C6_Comparator ==
    (regs.circuit = "comparator" /\ CircuitDone /\ ThirdIn = 0) =>
        \E k \in Support :
            /\ IsBasis(k)
            /\ Bit(k, regs.layout.third_start + regs.layout.num_bits) = 1
                   <=> OperandA = OperandB

C6_Witness ==
    /\ regs.circuit = "comparator"
    /\ CircuitDone
    /\ ThirdIn = 0
    /\ regs.layout.num_bits = 2
    /\ OperandA = 2
    /\ OperandB = 2
    /\ \E k \in Support : Bit(k, regs.layout.third_start + 2) = 1

\* the adder of the run, and the outcome of constructing and applying it
AdderReturned == regs.circuit = "adder" /\ calls = 1

AgreeBelow(j) == \A i \in 0 .. j - 1 : Bit(OperandA, i) = Bit(OperandB, i)

\* C20: with registers apart and the result chain zero, after
\* QuantumComparator result qubit j (0 <= j <= num_bits) is 1 iff A and B
\* agree on bit positions 0 .. j-1; the chain of num_bits+1 result qubits is
\* all ones iff A = B.
C20_ResultChain ==
    (regs.circuit = "comparator" /\ CircuitDone /\ ThirdIn = 0) =>
        \E k \in Support :
            /\ IsBasis(k)
            /\ \A j \in 0 .. regs.layout.num_bits :
                   Bit(k, regs.layout.third_start + j) = 1 <=> AgreeBelow(j)
            /\ Field(k, regs.layout.third_start, regs.layout.num_bits + 1)
                       = Pow2(regs.layout.num_bits + 1) - 1
                   <=> OperandA = OperandB

\* A = 1, B = 3: the operands agree on bit 0 and differ on bit 1
C20_Witness ==
    /\ regs.circuit = "comparator"
    /\ CircuitDone
    /\ ThirdIn = 0
    /\ regs.layout.num_bits = 2
    /\ OperandA = 1
    /\ OperandB = 3
    /\ \E k \in Support : Field(k, regs.layout.third_start, 3) = 3

\* C21: with registers apart, after QuantumComparator register A holds A and
\* each qubit B_i holds 1 iff the original A_i equalled the original B_i
\* (register B holds NOT(A XOR B)); the result qubits are left set: a chain
\* that was zero is not zero afterwards.
C21_DestructiveB ==
    (regs.circuit = "comparator" /\ CircuitDone) =>
        \E k \in Support :
            /\ IsBasis(k)
            /\ Field(k, regs.layout.a_start, regs.layout.num_bits) = OperandA
            /\ \A i \in 0 .. regs.layout.num_bits - 1 :
                   Bit(k, regs.layout.b_start + i) = 1
                       <=> Bit(OperandA, i) = Bit(OperandB, i)
            /\ ThirdIn = 0 =>
                   /\ Bit(k, regs.layout.third_start) = 1
                   /\ Field(k, regs.layout.third_start, regs.layout.num_bits + 1) # 0

\* A = 2, B = 1: register B is left holding NOT(2 XOR 1) = 0
C21_Witness ==
    /\ regs.circuit = "comparator"
    /\ CircuitDone
    /\ ThirdIn = 0
    /\ regs.layout.num_bits = 2
    /\ OperandA = 2
    /\ OperandB = 1
    /\ \E k \in Support : Field(k, regs.layout.b_start, 2) = 0

\* C22: as the class comment has it, |a>|b>|0> -> |a>|b>|a=b>: with registers
\* apart and the result chain zero, after QuantumComparator registers A and B
\* both hold their original values and the result is 1 iff a = b.
C22_HeaderComment ==
    (regs.circuit = "comparator" /\ CircuitDone /\ ThirdIn = 0) =>
        \E k \in Support :
            /\ IsBasis(k)
            /\ Field(k, regs.layout.a_start, regs.layout.num_bits) = OperandA
            /\ Field(k, regs.layout.b_start, regs.layout.num_bits) = OperandB
            /\ Bit(k, regs.layout.third_start + regs.layout.num_bits) = 1
                   <=> OperandA = OperandB

\* the qubits QuantumAdder may write: B_0 .. B_{num_bits-1} and
\* Carry[1 .. num_bits]
AdderWritable ==
    Extent(regs.layout.b_start, regs.layout.num_bits)
        \cup Extent(regs.layout.third_start + 1, regs.layout.num_bits)

\* C23: with registers apart, whatever basis state the store holds (the
\* carry register need not be zero), QuantumAdder changes no qubit of
\* register A, not Carry[0], and no qubit outside registers B and Carry:
\* the result is a basis state that differs from the input only in
\* B_0 .. B_{num_bits-1} and Carry[1 .. num_bits].
C23_AdderFrame ==
    (regs.circuit = "adder" /\ CircuitDone) =>
        \E k \in Support :
            /\ IsBasis(k)
            /\ \A q \in 0 .. num_qubits - 1 :
                   q \notin AdderWritable => Bit(k, q) = Bit(regs.input, q)

\* every qubit of the store is 1 before the call, one of them outside the
\* registers, and the call changes the store
C23_Witness ==
    /\ regs.circuit = "adder"
    /\ CircuitDone
    /\ num_qubits = SmallStore + 1
    /\ regs.input = state_size - 1
    /\ amplitudes # initial

\* MAJ(a, b, c): 1 iff at least two of the three bits are 1
MAJ(a, b, c) == IF a + b + c >= 2 THEN 1 ELSE 0

\* the carry into bit position i of the sum A + B, by arithmetic: the low i
\* bits of A and of B add up to 2^i or more
CarryInto(i) ==
    IF (OperandA % Pow2(i)) + (OperandB % Pow2(i)) >= Pow2(i) THEN 1 ELSE 0

RECURSIVE CarryVector(_)
\* the carries into positions 0 .. i read as an integer, Carry[0] lowest
CarryVector(i) ==
    IF i = 0 THEN 0 ELSE CarryVector(i - 1) + CarryInto(i) * Pow2(i)

\* C24: with registers apart and the carry register zero, after QuantumAdder
\* every Carry[i+1] (0 <= i < num_bits) equals MAJ(A_i, B_i, Carry[i]) with
\* the original B_i, and the carry register read as an integer is the ripple
\* carry vector of A + B.
C24_CarryChain ==
    (regs.circuit = "adder" /\ CircuitDone /\ ThirdIn = 0) =>
        \E k \in Support :
            /\ IsBasis(k)
            /\ \A i \in 0 .. regs.layout.num_bits - 1 :
                   Bit(k, regs.layout.third_start + i + 1)
                       = MAJ(Bit(OperandA, i), Bit(OperandB, i),
                             Bit(k, regs.layout.third_start + i))
            /\ Field(k, regs.layout.third_start, regs.layout.num_bits + 1)
                   = CarryVector(regs.layout.num_bits)

\* A = 1, B = 3: Carry[2] is set by B_1 and Carry[1] alone
C24_Witness ==
    /\ regs.circuit = "adder"
    /\ CircuitDone
    /\ ThirdIn = 0
    /\ regs.layout.num_bits = 2
    /\ OperandA = 1
    /\ OperandB = 3
    /\ \E k \in Support : Field(k, regs.layout.third_start, 3) = 6

\* C29: whenever QuantumAdder::apply fails with invalid_argument, also when
\* the failure comes from the constructor of an inner Toffoli or CNOT gate
\* that rejects coinciding qubits because the registers overlap, the store
\* holds exactly the amplitudes it held before the call.
C29_FailureAtomic ==
    (AdderReturned /\ status \in {"apply_invalid_argument", "inner_invalid_argument"})
        => amplitudes = initial

---------------------------------------------------------------------------
(* Properties of main() *)

RECURSIVE PowMod(_, _, _)
\* base^x mod modulus, by its definition
PowMod(base, x, modulus) ==
    IF x = 0 THEN 1 % modulus ELSE (base * PowMod(base, x - 1, modulus)) % modulus

\* main() has applied every Hadamard and every ControlledModularMultiply gate
AllGatesApplied == main.pc \in {"multiply", "done"} /\ main.i = main.num_qubits

\* the index with control register x and target register y
MainIndex(x, y) == y * Pow2(main.num_qubits) + x

\* C2: for every validated input, once all gates are applied, for every
\* control value x the index with control x and target base^x mod modulus has
\* probability 1/2^num_qubits, and no other target value is as probable for
\* that x.
C2_ModExp ==
    AllGatesApplied =>
        \A x \in 0 .. Pow2(main.num_qubits) - 1 :
            LET expected == PowMod(main.base, x, main.modulus)
            IN /\ GetProbability(amplitudes, MainIndex(x, expected))
                      = <<1, 0, 0, 0, main.num_qubits>>
               /\ \A y \in 0 .. Pow2(main.target_qubits) - 1 :
                      y # expected =>
                          Less(GetProbability(amplitudes, MainIndex(x, y)),
                               GetProbability(amplitudes, MainIndex(x, expected)))

\* a step of main() that constructs and applies a gate
GateStep == calls' = calls + 1

\* the gate main() is to apply as its k-th, k counted from 0
Scheduled(k) ==
    IF k < main.num_qubits
    THEN Hadamard(k)
    ELSE ModMult(k - main.num_qubits, main.num_qubits, main.target_qubits,
                 PowMod(main.base, Pow2(k - main.num_qubits), main.modulus),
                 main.modulus)

\* C25: the run applies exactly num_qubits Hadamard gates, targets
\* 0 .. num_qubits-1 in increasing order, and then exactly num_qubits
\* ControlledModularMultiply gates, the i-th with control i, targetStart
\* num_qubits, targetCount target_qubits and multiplier base^(2^i) mod
\* modulus, in increasing order of i: each gate step applies the scheduled
\* gate, and the run goes on to the readout only after 2 * num_qubits gates.
C25_GateSequence ==
    [][/\ GateStep =>
              /\ calls < 2 * main.num_qubits
              /\ gate' = Scheduled(calls)
              /\ status' = "ok"
       /\ main'.pc = "done" => calls' = 2 * main'.num_qubits
       /\ main'.pc # "aborted"]_vars

\* ceil(log2(m)): the least k with 2^k >= m
CeilLog2(m) == CHOOSE k \in 0 .. m : Pow2(k) >= m /\ (k = 0 \/ Pow2(k - 1) < m)

\* C26: for every modulus in [1, 1023] the computed target_qubits equals
\* max(1, ceil(log2(modulus))), so 2^target_qubits >= modulus and every
\* residue in [0, modulus) fits the target register.
C26_TargetWidth ==
    main.pc = "sized" =>
        /\ main.target_qubits
               = (IF CeilLog2(main.modulus) < 1 THEN 1 ELSE CeilLog2(main.modulus))
        /\ Pow2(main.target_qubits) >= main.modulus
        /\ \A residue \in 0 .. main.modulus - 1 : residue < Pow2(main.target_qubits)

\* a power of two needs no extra qubit: 512 residues fit 9 qubits
C26_Witness ==
    /\ main.pc = "sized"
    /\ main.modulus = 512
    /\ main.target_qubits = 9

\* every Hadamard gate of main() is applied, no ControlledModularMultiply yet
Prepared ==
    \/ main.pc = "hadamard" /\ main.i = main.num_qubits
    \/ main.pc = "multiply" /\ main.i = 0

\* 1 / sqrt(2^n): 1 / 2^(n/2) for even n, sqrt(2) / 2^((n+1)/2) for odd n
InvSqrtPow2(n) == IF n % 2 = 0 THEN <<1, 0, 0, 0, n \div 2>> ELSE <<0, 1, 0, 0, (n + 1) \div 2>>

\* C27: after the initialization and the Hadamard gates on all control
\* qubits, before any ControlledModularMultiply, the store holds amplitude
\* 1/sqrt(2^num_qubits) at each of the 2^num_qubits indices whose target
\* register is 1 and amplitude 0 at every other index.
C27_StatePreparation ==
    Prepared =>
        /\ \A k \in Indices(state_size) :
               amplitudes[k] = IF Field(k, main.num_qubits, main.target_qubits) = 1
                               THEN InvSqrtPow2(main.num_qubits)
                               ELSE CZero
        /\ Cardinality({k \in Indices(state_size) : amplitudes[k] # CZero})
               = Pow2(main.num_qubits)

C27_Witness ==
    /\ Prepared
    /\ main.num_qubits = 3
    /\ main.target_qubits = 3
    /\ amplitudes[MainIndex(5, 1)] = InvSqrtPow2(3)
    /\ amplitudes[MainIndex(5, 2)] = CZero

\* the input has passed main()'s checks
Validated == main.pc \notin {"read", "rejected"}

\* C28: for every input the validation accepts (base > 0, 0 < modulus <
\* 1024, gcd(base, modulus) = 1, 1 <= num_qubits <= 10), every gate
\* construction and every apply of the run succeeds: no exception is raised
\* between allocation and readout.
C28_NeverFails ==
    Validated =>
        /\ status \in {"none", "ok"}
        /\ main.pc # "aborted"

===========================================================================
